---------------------------- MODULE Spec2Model ----------------------------
(***************************************************************************)
(* Model of FFP_details.py: a single-page Streamlit viewer that loads the  *)
(* rows of one table, parses each row's metadata payload into a display    *)
(* name and a list of (question, answer) pairs, filters the rows by date   *)
(* range and by a search term, and renders a count, a CSV export and one   *)
(* panel per remaining row.                                                *)
(*                                                                         *)
(* Two specifications:                                                     *)
(*   ParseSpec  one call of parse_metadata on an arbitrary metadata value  *)
(*   Spec       one run of the page script, statement by statement         *)
(***************************************************************************)
EXTENDS Integers, Sequences, FiniteSets, TLC

VARIABLES
    pc,              \* position of the script / of the parse_metadata call
    ui,              \* the Streamlit output calls issued so far, in order
    table,           \* rows of financial_simulator_v2 (the external store)
    df,              \* the loaded data frame (rows, later with name / qa_pairs)
    start_date,      \* first element of the date_input value
    end_date,        \* second element of the date_input value
    search_term,     \* value of the sidebar text_input
    filtered_df,     \* the filtered data frame
    total,           \* the number shown as "Total Respondents"
    csv,             \* the rows handed to download_button
    panels,          \* the expanders rendered by the display loop
    err,             \* the exception that ended the script, "none" if none
    metadata_value,  \* argument of the parse_metadata call (ParseSpec)
    result           \* value returned by the parse_metadata call (ParseSpec)

vars == <<pc, ui, table, df, start_date, end_date, search_term, filtered_df,
          total, csv, panels, err, metadata_value, result>>

-----------------------------------------------------------------------------
(* Bounds of the model.                                                    *)

MaxPlan == 2      \* longest "plan" list handed to parse_metadata
MaxRows == 2      \* most rows in the table
MaxTerm == 1      \* longest search term, in characters
MaxDay  == 1      \* calendar days are 0 .. MaxDay
DayLen  == 2      \* clock ticks per calendar day

-----------------------------------------------------------------------------
(* Python values.  A str is its sequence of characters.                    *)

PyNone     == [t |-> "none"]
PyNum      == [t |-> "num"]
PyStr(s)   == [t |-> "str", s |-> s]
PyList(l)  == [t |-> "list", l |-> l]
PyDict(d)  == [t |-> "dict", d |-> d]
\* a str holding the JSON encoding of the value v
JsonText(v) == [t |-> "str", json |-> v]

EmptyDict == [k \in {} |-> PyNone]

isinstance_str(x)  == x.t = "str"
isinstance_dict(x) == x.t = "dict"

\* dict.get(key, default)
Get(d, key, default) == IF key \in DOMAIN d THEN d[key] ELSE default

\* outcome of evaluating an expression: a value, or a raised Exception
Raised   == [raised |-> TRUE]
Value(v) == [raised |-> FALSE, val |-> v]

NA    == PyStr(<<"N", "/", "A">>)
NameQ == PyStr(<<"W", "h", "a", "t", "'", "s", " ", "y", "o", "u", "r", " ",
                 "f", "u", "l", "l", " ", "n", "a", "m", "e">>)

\* str.lower on the characters the model uses
LowerChar(c) ==
    CASE c = "A" -> "a"
      [] c = "B" -> "b"
      [] c = "N" -> "n"
      [] c = "W" -> "w"
      [] OTHER   -> c

Lower(s) == [i \in 1..Len(s) |-> LowerChar(s[i])]

Digits == {"0", "1", "2", "3", "4", "5", "6", "7", "8", "9"}

\* json.loads on a str: a JSON document decodes to its value, the texts
\* "null" and digit strings decode to None and a number, anything else is
\* a JSONDecodeError
json_loads(x) ==
    IF "json" \in DOMAIN x THEN Value(x.json)
    ELSE IF x.s = <<"n", "u", "l", "l">> THEN Value(PyNone)
    ELSE IF x.s # <<>> /\ \A i \in 1..Len(x.s) : x.s[i] \in Digits
         THEN Value(PyNum)
    ELSE Raised

\* iter(x): the elements of a list, the characters of a str, the keys of a
\* dict (in some order; only their type matters below); TypeError otherwise
RECURSIVE SetToSeq(_)
SetToSeq(S) ==
    IF S = {} THEN <<>>
    ELSE LET k == CHOOSE k \in S : TRUE
         IN  <<PyStr(<<k>>)>> \o SetToSeq(S \ {k})

Iter(x) ==
    CASE x.t = "list" -> Value(x.l)
      [] x.t = "str"  -> Value([i \in 1..Len(x.s) |-> PyStr(<<x.s[i]>>)])
      [] x.t = "dict" -> Value(SetToSeq(DOMAIN x.d))
      [] OTHER        -> Raised

\* line 41: the list comprehension over plan
RECURSIVE QaPairs(_)
QaPairs(items) ==
    IF items = <<>> THEN <<>>
    ELSE LET item == Head(items)
         IN  (IF isinstance_dict(item)
              THEN << <<Get(item.d, "question", NA), Get(item.d, "answer", NA)>> >>
              ELSE <<>>) \o QaPairs(Tail(items))

\* mutant of NameScan: the question is compared ignoring case
RECURSIVE NameScanAnyCase(_)
NameScanAnyCase(items) ==
    IF items = <<>> THEN Value(NA)
    ELSE LET item == Head(items)
             q    == IF isinstance_dict(item)
                     THEN Get(item.d, "question", PyNone) ELSE PyNone
         IN  IF ~isinstance_dict(item) THEN Raised
             ELSE IF isinstance_str(q) /\ Lower(q.s) = Lower(NameQ.s)
                  THEN Value(Get(item.d, "answer", PyNone))
                  ELSE NameScanAnyCase(Tail(items))

\* line 42: next(generator, "N/A"); item.get on a non-dict is an
\* AttributeError, raised when the lazy scan reaches that element
RECURSIVE NameScan(_)
NameScan(items) ==
    IF items = <<>> THEN Value(NA)
    ELSE LET item == Head(items)
         IN  IF ~isinstance_dict(item) THEN Raised
             ELSE IF Get(item.d, "question", PyNone) = NameQ
                  THEN Value(Get(item.d, "answer", PyNone))
                  ELSE NameScan(Tail(items))

\* lines 40-43: the rest of the try block once data is bound
ParseBody(data) ==
    IF ~isinstance_dict(data) THEN Raised          \* data.get: AttributeError
    ELSE LET plan == Get(data.d, "plan", PyList(<<>>))
             it   == Iter(plan)
         IN  IF it.raised THEN Raised
             ELSE LET name == NameScan(it.val)
                  IN  IF name.raised THEN Raised
                      ELSE Value(<<name.val, QaPairs(it.val)>>)

\* lines 33-43: the try block; its outcome is the returned pair or an
\* exception raised inside it
TryBlock(mv) ==
    IF isinstance_str(mv)
    THEN LET data == json_loads(mv)                       \* line 34
         IN  IF data.raised THEN Raised ELSE ParseBody(data.val)
    ELSE IF isinstance_dict(mv) THEN ParseBody(mv)        \* line 36
    ELSE Value(<<NA, <<>>>>)                              \* line 38

\* mutant of parse_metadata: only a JSON decoding error is caught
parse_metadata_decode_only(mv) ==
    LET body == TryBlock(mv)
    IN  IF isinstance_str(mv) /\ json_loads(mv).raised
        THEN Value(<<NA, <<>>>>)
        ELSE body

\* lines 31-45: except Exception turns every raise into the sentinel pair
parse_metadata(mv) ==
    LET body == TryBlock(mv)
    IN  IF body.raised THEN Value(<<NA, <<>>>>) ELSE body

-----------------------------------------------------------------------------
(* ParseSpec: one call of parse_metadata.                                  *)

LowerQ == PyStr(Lower(NameQ.s))            \* differs from NameQ in case only
ExtraQ == PyStr(NameQ.s \o <<"?">>)        \* NameQ with one more character
AgeQ   == PyStr(<<"A", "g", "e">>)
Al     == PyStr(<<"A", "l">>)
Bo     == PyStr(<<"B", "o">>)

Questions == {NameQ, LowerQ, ExtraQ, AgeQ}
Answers   == {Al, Bo, PyNone}

\* the mappings a plan may hold: "question" and "answer" each present or not
ItemDicts ==
    {PyDict([question |-> q, answer |-> a]) : q \in Questions, a \in Answers}
    \cup {PyDict([question |-> q]) : q \in Questions}
    \cup {PyDict([answer |-> a]) : a \in Answers}
    \cup {PyDict(EmptyDict)}

\* plan elements that are not mappings
NonDicts == {PyNum, PyStr(<<"x">>)}

PlanLists == UNION {[1..n -> ItemDicts \cup NonDicts] : n \in 0..MaxPlan}

\* values of "plan" that are not lists
NonListPlans == {PyNone, PyNum, PyStr(<<>>), PyStr(<<"a", "b">>),
                 PyDict(EmptyDict), PyDict([question |-> NameQ])}

\* decoded payloads: objects with a plan list, with a plan that is no list,
\* without a plan, and values that are no objects
Objects ==
    {PyDict([plan |-> PyList(l)]) : l \in PlanLists}
    \cup {PyDict([plan |-> p]) : p \in NonListPlans}
    \cup {PyDict(EmptyDict), PyDict([other |-> PyNum])}

NonObjects == {PyNone, PyNum, PyStr(<<"a">>), PyList(<<>>),
               PyList(<<PyDict([question |-> NameQ, answer |-> Al])>>)}

NotJson == PyStr(<<"n", "o", "t", " ", "j", "s", "o", "n">>)

MetadataValues ==
    Objects                                           \* already decoded
    \cup {JsonText(v) : v \in Objects \cup NonObjects} \* JSON documents
    \cup {NotJson, PyStr(<<>>), PyStr(<<"n", "u", "l", "l">>), PyStr(<<"4", "2">>)}
    \cup {PyNone, PyNum, PyList(<<>>)}                \* neither str nor dict

NoResult == <<>>

ParseInit ==
    /\ pc = "call"
    /\ metadata_value \in MetadataValues
    /\ result = NoResult
    /\ ui = <<>> /\ table = <<>> /\ df = <<>>
    /\ start_date = 0 /\ end_date = 0 /\ search_term = <<>>
    /\ filtered_df = <<>> /\ total = -1 /\ csv = <<>> /\ panels = <<>> /\ err = "none"

\* the call returns its pair, or an exception leaves it
ParseCall ==
    /\ pc = "call"
    /\ LET out == parse_metadata(metadata_value)
       IN  IF out.raised
           THEN pc' = "raised" /\ result' = NoResult
           ELSE pc' = "returned" /\ result' = out.val
    /\ UNCHANGED <<ui, table, df, start_date, end_date, search_term,
                   filtered_df, total, csv, panels, err, metadata_value>>

ParseNext == ParseCall

ParseSpec == ParseInit /\ [][ParseNext]_vars

-----------------------------------------------------------------------------
(* Properties of parse_metadata, checked under ParseSpec.                  *)

IsMapping(x) == x.t = "dict"

\* the value a metadata value decodes to, if it decodes
IsJsonDocument(mv) == mv.t = "str" /\ "json" \in DOMAIN mv
Decoded(mv)        == IF IsJsonDocument(mv) THEN mv.json ELSE mv

\* the metadata carries an object whose "plan" is a list
HasPlanList(mv) ==
    /\ IsJsonDocument(mv) \/ IsMapping(mv)
    /\ IsMapping(Decoded(mv))
    /\ "plan" \in DOMAIN Decoded(mv).d
    /\ Decoded(mv).d.plan.t = "list"

PlanOf(mv) == Decoded(mv).d.plan.l

\* the malformed shapes: a value that is neither str nor mapping, a str that
\* is no JSON document of an object, a mapping whose plan is no list
Malformed(mv) ==
    \/ mv.t \notin {"str", "dict"}
    \/ mv.t = "str" /\ ~IsJsonDocument(mv)
    \/ IsJsonDocument(mv) /\ ~IsMapping(mv.json)
    \/ /\ IsJsonDocument(mv) \/ IsMapping(mv)
       /\ IsMapping(Decoded(mv))
       /\ "plan" \in DOMAIN Decoded(mv).d
       /\ Decoded(mv).d.plan.t # "list"

Field(item, key) == IF key \in DOMAIN item.d THEN item.d[key] ELSE NA

\* the (question, answer) pairs of the mapping elements of a plan, in order
ExpectedPairs(l) ==
    LET m == SelectSeq(l, IsMapping)
    IN  [k \in 1..Len(m) |-> <<Field(m[k], "question"), Field(m[k], "answer")>>]

\* positions of the plan elements that ask the name question
NameMatches(l) ==
    {i \in 1..Len(l) : /\ IsMapping(l[i])
                       /\ "question" \in DOMAIN l[i].d
                       /\ l[i].d.question = NameQ}

FirstOf(S) == CHOOSE i \in S : \A j \in S : i <= j

\* C1: parse_metadata never lets an exception out, always returns a pair,
\* and returns ("N/A", []) for every malformed metadata value.
C1_FailSafe ==
    /\ pc # "raised"
    /\ pc = "returned" =>
          /\ DOMAIN result = 1..2
          /\ Malformed(metadata_value) => result = <<NA, <<>>>>

\* C1 witness: a mapping whose plan is a non-empty str came back as the
\* sentinel pair.
C1_Witness ==
    /\ pc = "returned"
    /\ metadata_value = PyDict([plan |-> PyStr(<<"a", "b">>)])
    /\ result = <<NA, <<>>>>

\* C2: for a JSON document holding an object with a plan list, qa_pairs
\* lists the pairs of the plan's mapping elements in order, as many as there
\* are mapping elements; the other elements are skipped without effect.
C2_PairsOfMappings ==
    (pc = "returned" /\ IsJsonDocument(metadata_value) /\ HasPlanList(metadata_value)) =>
        /\ Len(result[2]) = Len(SelectSeq(PlanOf(metadata_value), IsMapping))
        /\ result[2] = ExpectedPairs(PlanOf(metadata_value))

\* C3: the name is the answer of the first plan element whose question is
\* exactly the name question, and "N/A" when no element asks it.
C3_FirstExactMatch ==
    (pc = "returned" /\ HasPlanList(metadata_value)) =>
        LET l == PlanOf(metadata_value)
            M == NameMatches(l)
        IN  IF M = {} THEN result[1] = NA
            ELSE "answer" \in DOMAIN l[FirstOf(M)].d =>
                     result[1] = l[FirstOf(M)].d.answer

\* C4 as stated: a plan without the name question gives ("N/A", []).
C4_Original ==
    (pc = "returned" /\ HasPlanList(metadata_value)
        /\ NameMatches(PlanOf(metadata_value)) = {}) =>
        result = <<NA, <<>>>>

\* C4 amended: a plan without the name question gives the name "N/A"; the
\* Q&A sequence holds the pairs of the plan's elements when all of them are
\* mappings and is empty otherwise.
C4_Amended ==
    (pc = "returned" /\ HasPlanList(metadata_value)
        /\ NameMatches(PlanOf(metadata_value)) = {}) =>
        LET l == PlanOf(metadata_value)
        IN  /\ result[1] = NA
            /\ result[2] = IF \A i \in 1..Len(l) : IsMapping(l[i])
                           THEN ExpectedPairs(l) ELSE <<>>

\* C4 witness: a plan of one other question came back with the sentinel
\* name and that question's pair.
C4_Witness ==
    /\ pc = "returned"
    /\ metadata_value =
          JsonText(PyDict([plan |-> PyList(<<PyDict([question |-> LowerQ, answer |-> Bo])>>)]))
    /\ result = <<NA, << <<LowerQ, Bo>> >> >>

\* C5: the returned name is always a str.
C5_NameIsString ==
    pc = "returned" => result[1].t = "str"

-----------------------------------------------------------------------------
(* Spec: one run of the page script.                                       *)

\* created_at is a tick count; a calendar day has DayLen ticks
Date(ts)      == ts \div DayLen                 \* Timestamp.date()
TimeOfDay(ts) == ts % DayLen
\* strftime('%Y-%m-%d %H:%M')
Strftime(ts)  == <<Date(ts), TimeOfDay(ts)>>

\* str(n) for a non-negative integer
DigitChar(n) ==
    CASE n = 0 -> "0" [] n = 1 -> "1" [] n = 2 -> "2" [] n = 3 -> "3"
      [] n = 4 -> "4" [] n = 5 -> "5" [] n = 6 -> "6" [] n = 7 -> "7"
      [] n = 8 -> "8" [] n = 9 -> "9"

RECURSIVE AsTypeStr(_)
AsTypeStr(n) ==
    IF n < 10 THEN <<DigitChar(n)>>
    ELSE AsTypeStr(n \div 10) \o <<DigitChar(n % 10)>>

\* re.compile: a "*" with nothing to repeat, or repeating a repeat, is an
\* re.error
ValidPattern(p) ==
    \A k \in 1..Len(p) : p[k] = "*" => (k > 1 /\ p[k-1] # "*")

\* one pattern character against one subject character
CharMatches(c, x, ignorecase) ==
    \/ c = "."
    \/ IF ignorecase THEN LowerChar(c) = LowerChar(x) ELSE c = x

\* the pattern matches a prefix of the subject
RECURSIVE MatchHere(_, _, _)
MatchHere(p, x, ignorecase) ==
    IF p = <<>> THEN TRUE
    ELSE IF Len(p) >= 2 /\ p[2] = "*"
    THEN \/ MatchHere(SubSeq(p, 3, Len(p)), x, ignorecase)
         \/ /\ x # <<>>
            /\ CharMatches(p[1], x[1], ignorecase)
            /\ MatchHere(p, Tail(x), ignorecase)
    ELSE /\ x # <<>>
         /\ CharMatches(p[1], x[1], ignorecase)
         /\ MatchHere(Tail(p), Tail(x), ignorecase)

\* re.search: the pattern matches somewhere in the subject
ReSearch(p, x, ignorecase) ==
    \E k \in 0..Len(x) : MatchHere(p, SubSeq(x, k + 1, Len(x)), ignorecase)

\* Series.str.contains(pat, case=False, na=False) on one element: the
\* pattern is a regular expression; an element that is no str gives False
NameContains(v, pat) ==
    /\ isinstance_str(v)
    /\ ReSearch(pat, v.s, TRUE)

\* Series.astype(str).str.contains(pat) on one element
IdContains(id, pat) == ReSearch(pat, AsTypeStr(id), FALSE)

\* mutant of DateKeep: the timestamp itself is compared with the dates,
\* taken at midnight
DateKeepMidnight(row, s, e) ==
    row.created_at >= s * DayLen /\ row.created_at <= e * DayLen

\* line 68, one row
DateKeep(row, s, e) == Date(row.created_at) >= s /\ Date(row.created_at) <= e

\* lines 75-78, one row
SearchKeep(row, term) == NameContains(row.name, term) \/ IdContains(row.id, term)

\* metadata payloads of the stored rows: one that does not parse, one with
\* a name and a null answer, one whose name question has no answer
RowMetas ==
    {NotJson,
     JsonText(PyDict([plan |-> PyList(<<PyDict([question |-> NameQ, answer |-> Al]),
                                        PyDict([question |-> AgeQ, answer |-> PyNone])>>)])),
     PyDict([plan |-> PyList(<<PyDict([question |-> NameQ])>>)])}

Days       == 0..MaxDay
Timestamps == {d * DayLen + tod : d \in Days, tod \in {0, DayLen - 1}}

\* the table: ids are serial, timestamps and payloads arbitrary
Tables ==
    UNION {{[k \in 1..n |-> [id |-> k, created_at |-> ts[k], metadata |-> md[k]]] :
               ts \in [1..n -> Timestamps], md \in [1..n -> RowMetas]} :
           n \in 0..MaxRows}

TermChars == {"a", "1", ".", "*"}
Terms     == UNION {[1..n -> TermChars] : n \in 0..MaxTerm}

\* complete values of the range date_input
Ranges == {r \in Days \X Days : r[1] <= r[2]}

Init ==
    /\ pc = "start"
    /\ ui = <<>>
    /\ table \in Tables
    /\ df = <<>>
    /\ start_date = 0 /\ end_date = 0 /\ search_term = <<>>
    /\ filtered_df = <<>> /\ total = -1 /\ csv = <<>> /\ panels = <<>> /\ err = "none"
    /\ metadata_value = PyNone /\ result = NoResult

\* mutant of PageConfig: the sidebar header is issued with the page header
PageConfigWithSidebar ==
    /\ pc = "start"
    /\ ui' = ui \o <<"set_page_config", "title", "markdown", "sidebar.header">>
    /\ pc' = "configured"
    /\ UNCHANGED <<table, df, start_date, end_date, search_term, filtered_df,
                   total, csv, panels, err, metadata_value, result>>

\* lines 50-52
PageConfig ==
    /\ pc = "start"
    /\ ui' = ui \o <<"set_page_config", "title", "markdown">>
    /\ pc' = "configured"
    /\ UNCHANGED <<table, df, start_date, end_date, search_term, filtered_df,
                   total, csv, panels, err, metadata_value, result>>

\* line 57, lines 21-26: the query returns the table
LoadData ==
    /\ pc = "configured"
    /\ df' = table
    /\ pc' = "loaded"
    /\ UNCHANGED <<ui, table, start_date, end_date, search_term, filtered_df,
                   total, csv, panels, err, metadata_value, result>>

\* line 57, lines 23-24: the connection or the query fails and the
\* exception leaves the script
LoadDataFails ==
    /\ pc = "configured"
    /\ pc' = "error"
    /\ err' = "OperationalError"
    /\ UNCHANGED <<ui, table, df, start_date, end_date, search_term,
                   filtered_df, total, csv, panels, metadata_value, result>>

\* line 58 on one row: the row with its name and qa_pairs columns
WithParsed(row) ==
    LET out == parse_metadata(row.metadata)
    IN  [id |-> row.id, created_at |-> row.created_at, metadata |-> row.metadata,
         name |-> out.val[1], qa_pairs |-> out.val[2]]

\* mutant of Process: rows whose metadata gave no Q&A are dropped
ProcessDropUnparsed ==
    /\ pc = "loaded"
    /\ IF df = <<>>
       THEN pc' = "error" /\ err' = "ValueError" /\ df' = df
       ELSE /\ pc' = "parsed"
            /\ err' = err
            /\ df' = SelectSeq([k \in 1..Len(df) |-> WithParsed(df[k])],
                               LAMBDA row : row.qa_pairs # <<>>)
    /\ UNCHANGED <<ui, table, start_date, end_date, search_term, filtered_df,
                   total, csv, panels, metadata_value, result>>

\* line 58: zip(*...) of no rows cannot be unpacked into two columns
\* (ValueError); an exception out of parse_metadata would leave the script
Process ==
    /\ pc = "loaded"
    /\ IF \E k \in 1..Len(df) : parse_metadata(df[k].metadata).raised
       THEN pc' = "error" /\ err' = "Exception" /\ df' = df
       ELSE IF df = <<>>
       THEN pc' = "error" /\ err' = "ValueError" /\ df' = df
       ELSE /\ pc' = "parsed"
            /\ err' = err
            /\ df' = [k \in 1..Len(df) |-> WithParsed(df[k])]
    /\ UNCHANGED <<ui, table, start_date, end_date, search_term, filtered_df,
                   total, csv, panels, metadata_value, result>>

\* line 68
DateFilter(frame, s, e) == SelectSeq(frame, LAMBDA row : DateKeep(row, s, e))

\* lines 63-68 with a complete range chosen
DateRangeFilter ==
    /\ pc = "parsed"
    /\ \E r \in Ranges :
          /\ start_date' = r[1]
          /\ end_date' = r[2]
          /\ filtered_df' = DateFilter(df, r[1], r[2])
    /\ ui' = ui \o <<"sidebar.header", "sidebar.date_input">>
    /\ pc' = "dated"
    /\ UNCHANGED <<table, df, search_term, total, csv, panels, err,
                   metadata_value, result>>

\* lines 63-66 while only the first date of the range is picked: the
\* one-element value cannot be unpacked (ValueError)
DateRangePartial ==
    /\ pc = "parsed"
    /\ ui' = ui \o <<"sidebar.header", "sidebar.date_input">>
    /\ pc' = "error"
    /\ err' = "ValueError"
    /\ UNCHANGED <<table, df, start_date, end_date, search_term, filtered_df,
                   total, csv, panels, metadata_value, result>>

\* lines 75-78
TextFilter(frame, term) == SelectSeq(frame, LAMBDA row : SearchKeep(row, term))

\* lines 73-78: an empty term skips the filter; a term that is no regular
\* expression raises re.error
SearchFilter ==
    /\ pc = "dated"
    /\ \E term \in Terms :
          /\ search_term' = term
          /\ IF term = <<>>
             THEN pc' = "searched" /\ err' = err /\ filtered_df' = filtered_df
             ELSE IF ~ValidPattern(term)
             THEN pc' = "error" /\ err' = "re.error" /\ filtered_df' = filtered_df
             ELSE /\ pc' = "searched"
                  /\ err' = err
                  /\ filtered_df' = TextFilter(filtered_df, term)
    /\ ui' = ui \o <<"sidebar.text_input">>
    /\ UNCHANGED <<table, df, start_date, end_date, total, csv, panels,
                   metadata_value, result>>

\* line 83
TotalOf(frame) == Len(frame)

\* mutant of ToCsv: the export is taken from the loaded frame
ToCsvUnfiltered(frame) == df

\* line 84: to_csv(index=False) writes every column of every row
ToCsv(frame) == frame

\* lines 83-84
Summary ==
    /\ pc = "searched"
    /\ total' = TotalOf(filtered_df)
    /\ csv' = ToCsv(filtered_df)
    /\ ui' = ui \o <<"markdown", "download_button">>
    /\ pc' = "summarized"
    /\ UNCHANGED <<table, df, start_date, end_date, search_term, filtered_df,
                   panels, err, metadata_value, result>>

\* bool(a) for the values an answer takes
Truthy(a) == a # PyNone /\ a # PyStr(<<>>)

\* lines 92-107: the panel of one row
Panel(row) ==
    [name      |-> row.name,
     id        |-> row.id,
     submitted |-> Strftime(row.created_at),
     lines     |-> [k \in 1..Len(row.qa_pairs) |->
                       <<row.qa_pairs[k][1],
                         IF Truthy(row.qa_pairs[k][2]) THEN row.qa_pairs[k][2] ELSE NA>>],
     link      |-> <<"http://ladder.africa/ffp/results?id=", row.id>>]

\* lines 91-107
PanelsOf(frame) == [k \in 1..Len(frame) |-> Panel(frame[k])]

\* lines 89-107
Display ==
    /\ pc = "summarized"
    /\ panels' = PanelsOf(filtered_df)
    /\ ui' = ui \o <<"subheader">> \o [k \in 1..Len(filtered_df) |-> "expander"]
    /\ pc' = "done"
    /\ UNCHANGED <<table, df, start_date, end_date, search_term, filtered_df,
                   total, csv, err, metadata_value, result>>

Next ==
    \/ PageConfig
    \/ LoadData
    \/ LoadDataFails
    \/ Process
    \/ DateRangeFilter
    \/ DateRangePartial
    \/ SearchFilter
    \/ Summary
    \/ Display

Spec == Init /\ [][Next]_vars

-----------------------------------------------------------------------------
(* Properties of the page run, checked under Spec.                         *)

\* the calendar day a timestamp falls on
CalendarDay(ts) ==
    CHOOSE d \in 0..ts : d * DayLen <= ts /\ ts < (d + 1) * DayLen

\* t occurs in x as a literal substring
IsSubstr(t, x) ==
    \E k \in 0..(Len(x) - Len(t)) : SubSeq(x, k + 1, k + Len(t)) = t

\* the frame holds the row with this id
Holds(frame, id) == \E j \in 1..Len(frame) : frame[j].id = id

InRange(row) ==
    start_date <= CalendarDay(row.created_at) /\ CalendarDay(row.created_at) <= end_date

\* the term occurs literally in the name, ignoring case, or in the id's
\* string form
LiteralHit(row, term) ==
    \/ row.name.t = "str" /\ IsSubstr(Lower(term), Lower(row.name.s))
    \/ IsSubstr(term, AsTypeStr(row.id))

AfterParse == {"parsed", "dated", "searched", "summarized", "done"}

\* C6: after the date filter a loaded record is kept exactly when the
\* calendar day of its timestamp lies in [start_date, end_date].
C6_DateFilter ==
    pc = "dated" =>
        \A k \in 1..Len(df) : Holds(filtered_df, df[k].id) <=> InRange(df[k])

\* C6 witness: a record stamped at the last tick of the end date is kept
\* while a record of the next day is dropped.
C6_Witness ==
    /\ pc = "dated"
    /\ Len(df) = 2
    /\ CalendarDay(df[1].created_at) = end_date
    /\ df[1].created_at % DayLen = DayLen - 1
    /\ CalendarDay(df[2].created_at) > end_date
    /\ filtered_df = <<df[1]>>

\* C7: after the search filter a date-filtered record is kept exactly when
\* the term is empty or occurs literally in its name (ignoring case) or in
\* its identifier's string form; every character of the term is literal.
C7_LiteralSearch ==
    pc = "searched" =>
        \A k \in 1..Len(df) :
            InRange(df[k]) =>
                (Holds(filtered_df, df[k].id) <=>
                    (search_term = <<>> \/ LiteralHit(df[k], search_term)))

\* C8: a record whose metadata does not parse stays in the frame with the
\* name "N/A" and no Q&A, and is rendered as a panel without Q&A lines when
\* its date is in range and the term is empty or occurs in its sentinel name
\* or its identifier.
C8_UnparsedRowsKept ==
    /\ err # "Exception"
    /\ pc \in AfterParse =>
          /\ Len(df) = Len(table)
          /\ \A k \in 1..Len(table) :
                /\ df[k].id = table[k].id
                /\ Malformed(table[k].metadata) =>
                      df[k].name = NA /\ df[k].qa_pairs = <<>>
    /\ (pc = "done" \/ err = "re.error") =>
          \A k \in 1..Len(table) :
              ( /\ Malformed(table[k].metadata)
                /\ InRange(table[k])
                /\ search_term = <<>> \/ LiteralHit(df[k], search_term) ) =>
                  /\ pc = "done"
                  /\ \E j \in 1..Len(panels) :
                        /\ panels[j].id = table[k].id
                        /\ panels[j].name = NA
                        /\ panels[j].lines = <<>>

\* C8 witness: a record whose metadata is no JSON was found by a lower-case
\* letter of its sentinel name and rendered without Q&A lines.
C8_Witness ==
    /\ pc = "done"
    /\ search_term = <<"a">>
    /\ \E j \in 1..Len(panels) :
          /\ table[panels[j].id].metadata = NotJson
          /\ panels[j].name = NA
          /\ panels[j].lines = <<>>

\* the records that pass the date filter and the text filter, in loaded order
PassBoth ==
    SelectSeq(df, LAMBDA row : /\ DateKeep(row, start_date, end_date)
                               /\ search_term = <<>> \/ SearchKeep(row, search_term))

OriginalColumns == {"id", "created_at", "metadata"}

\* C9: the exported rows are the records passing both filters in loaded
\* order with their original columns, the count is their number, and the
\* panels are rendered for the same records.
C9_SameFilteredSet ==
    pc \in {"summarized", "done"} =>
        LET pass == PassBoth
        IN  /\ total = Len(pass)
            /\ Len(csv) = Len(pass)
            /\ \A j \in 1..Len(csv) :
                  /\ OriginalColumns \subseteq DOMAIN csv[j]
                  /\ csv[j].id = pass[j].id
                  /\ \A c \in OriginalColumns : csv[j][c] = table[csv[j].id][c]
            /\ pc = "done" =>
                  /\ Len(panels) = Len(pass)
                  /\ \A j \in 1..Len(panels) : panels[j].id = pass[j].id

\* C9 witness: with a search term given, one of two records passed both
\* filters and was counted, exported and rendered.
C9_Witness ==
    /\ pc = "done"
    /\ Len(df) = 2
    /\ search_term # <<>>
    /\ total = 1
    /\ Len(csv) = 1
    /\ Len(panels) = 1
    /\ csv[1].id = 2
    /\ panels[1].id = 2

HeaderCalls == <<"set_page_config", "title", "markdown">>

\* C10 as stated: nothing is rendered before load_data has returned, and
\* nothing has been rendered when it raises.
C10_Original ==
    (pc \in {"start", "configured"} \/ err = "OperationalError") => ui = <<>>

\* C10 amended: before load_data has returned, and when it raises, the only
\* output calls issued are set_page_config, title and the introductory
\* markdown; every other output call comes after load_data has returned.
C10_Amended ==
    /\ pc = "start" => ui = <<>>
    /\ (pc = "configured" \/ err = "OperationalError") => ui = HeaderCalls
    /\ Len(ui) > Len(HeaderCalls) => (df # <<>> /\ err # "OperationalError")

\* C10 witness: load_data raised after the three header calls.
C10_Witness ==
    /\ pc = "error"
    /\ err = "OperationalError"
    /\ ui = HeaderCalls

=============================================================================
